---- MODULE Spec2Model ----
(***************************************************************************)
(* Model of the two drafts of package ring of gache:                       *)
(*   - pkg/ring/buffer.go : RingBuffer with Add(block) / Get               *)
(*   - the length-prefixed draft : RingBuffer with write / Write / Get     *)
(* Offsets are 0-based as in the Go code; sequences are 1-based, so the    *)
(* byte at Go offset p of a slice s is s[p + 1].                           *)
(***************************************************************************)
EXTENDS Integers, Sequences, FiniteSets, TLC

VARIABLES
    variant,        \* which draft of RingBuffer the store is
    size,           \* RingBuffer.size
    buffer,         \* RingBuffer.buffer
    currPosition,   \* RingBuffer.currPosition
    blockIdx,       \* RingBuffer.blockIdx
    timeIdx,        \* RingBuffer.timeIdx
    panicked,       \* a call has ended in a run-time panic
    writes,         \* number of Write calls made
    blocks,         \* where the last two blocks went in
    last,           \* the last call: its arguments, pre-state and results
    stored,         \* the last three blocks added, with their bytes
    race            \* the Add and the Get in progress when calls overlap

vars ==
    <<variant, size, buffer, currPosition, blockIdx, timeIdx, panicked, writes,
      blocks, last, stored, race>>

\* ---------------------------------------------------------------- bounds
\* Largest capacity of a buffer.go store that is explored.
MaxSize == 3
\* Longest AllData / largest Len() of a block: one more than the capacity,
\* so that oversized blocks exist for every explored capacity.
MaxLen == MaxSize + 1
\* Capacities of the length-prefixed store: from below twice the header
\* length (no frame fits) to above it.
MinFramedSize == 15
MaxFramedSize == 17
\* Number of Write calls made on one length-prefixed store.
MaxWrites == 2
MaxStored == 3

\* The size arguments handed to NewRingBuffer of buffer.go, a negative one
\* and zero among them.
Sizes == (-1)..MaxSize
FramedSizes == MinFramedSize..MaxFramedSize
\* Distinct payload contents per length.
Tags == {1, 2}

\* The payloads handed to Add and Write: byte i of the payload tagged t is
\* 16 * t + i, so every byte names its payload and its place in it, and none
\* equals the 0 that make() leaves or a byte of a length header.
Payload(t, n) == [i \in 1..n |-> (16 * t + i) % 256]
Payloads(n) == {Payload(t, k) : t \in Tags, k \in 0..n}

\* ---------------------------------------------------------------- errors
Nil == "nil"
InsufficientBufferSpace == "InsufficientBufferSpace"
BufferrOutOfRange == "BufferrOutOfRange"
\* A Go run-time panic (slice bounds out of range, integer divide by zero).
Panic == "panic"

\* ---------------------------------------------------------------- helpers
Min(a, b) == IF a < b THEN a ELSE b

\* make([]byte, n)
Make(n) == [i \in 1..n |-> 0]

\* s[from:] and s[:to] and s[from:to] for 0 <= from <= to <= len(s)
Slice(s, from, to) == [i \in 1..(to - from) |-> s[from + i]]

\* copy(dst[at:], src): copies min(len(dst) - at, len(src)) bytes, for at <= len(dst)
CopyAt(dst, at, src) ==
    [i \in 1..Len(dst) |->
        IF i > at /\ i - at <= Len(src) THEN src[i - at] ELSE dst[i]]

\* ---------------------------------------------------------------- Block
\* Block.Len(): the sum of the three length fields, independent of AllData.
BlockLen(block) == block.hashedKeyLen + block.rawKeyLen + block.dataLen

\* The blocks handed to Add: for every payload d, the block whose length
\* fields add up to len(d), and the block whose length fields were never set
\* (a Block literal that sets only AllData has Len() = 0).
BlockOf(d) ==
    LET hk == Min(1, Len(d))
        rk == Min(1, Len(d) - hk)
    IN  [hashedKeyLen |-> hk, rawKeyLen |-> rk, dataLen |-> Len(d) - hk - rk,
         AllData |-> d]

Blocks ==
    {BlockOf(d) : d \in Payloads(MaxLen)}
    \cup {[hashedKeyLen |-> 0, rawKeyLen |-> 0, dataLen |-> 0, AllData |-> d] :
            d \in Payloads(MaxLen)}

\* ---------------------------------------------------------------- Add
\* Add as a ring would do it: byte i of AllData goes to (cur + i) mod size and
\* the cursor is reduced mod size.
AddWrapping(buf, sz, cur, block) ==
    LET blockLen == BlockLen(block)
        n == Len(block.AllData)
    IN  IF blockLen > sz
        THEN [err |-> InsufficientBufferSpace, buffer |-> buf,
              currPosition |-> cur]
        ELSE IF sz = 0
        THEN [err |-> Panic, buffer |-> buf, currPosition |-> cur]
        ELSE [err |-> Nil,
              buffer |->
                [p \in 1..sz |->
                   LET hits == {i \in 1..n : ((cur + i - 1) % sz) + 1 = p}
                   IN  IF hits = {} THEN buf[p]
                       ELSE block.AllData[CHOOSE i \in hits :
                                             \A j \in hits : j <= i]],
              currPosition |-> (cur + blockLen) % sz]

\* Add whose copy lands at r.buffer[0:] instead of r.buffer[r.currPosition:].
AddCopyAtZero(buf, sz, cur, block) ==
    LET blockLen == BlockLen(block)
    IN  IF blockLen > sz
        THEN [err |-> InsufficientBufferSpace, buffer |-> buf,
              currPosition |-> cur]
        ELSE IF sz = 0 \/ cur > sz
        THEN [err |-> Panic, buffer |-> buf, currPosition |-> cur]
        ELSE [err |-> Nil, buffer |-> CopyAt(buf, 0, block.AllData),
              currPosition |-> cur + (blockLen % sz)]

\* RingBuffer.Add of buffer.go on the store (buf, sz, cur):
\* the error returned and the store's buffer and cursor afterwards.
\* Go parses  r.currPosition + blockLen%r.size  as  cur + (blockLen % size).
Add(buf, sz, cur, block) ==
    LET blockLen == BlockLen(block)
        unchanged == [buffer |-> buf, currPosition |-> cur]
    IN  IF blockLen > sz
        THEN [err |-> InsufficientBufferSpace] @@ unchanged
        ELSE IF sz = 0
        THEN [err |-> Panic] @@ unchanged            \* blockLen % 0
        ELSE LET targetPos == cur + (blockLen % sz)
             IN  IF cur > sz
                 THEN [err |-> Panic] @@ unchanged   \* r.buffer[cur:]
                 ELSE IF targetPos < cur
                 THEN IF sz - cur > Len(block.AllData)
                      THEN [err |-> Panic] @@ unchanged  \* AllData[:size-cur]
                      ELSE [err |-> Nil,
                            buffer |->
                              CopyAt(CopyAt(buf, cur,
                                            Slice(block.AllData, 0, sz - cur)),
                                     0,
                                     Slice(block.AllData, sz - cur,
                                           Len(block.AllData))),
                            currPosition |-> targetPos]
                 ELSE [err |-> Nil,
                       buffer |-> CopyAt(buf, cur, block.AllData),
                       currPosition |-> targetPos]

\* ---------------------------------------------------------------- Get
\* Get whose second copy of a wrapping read lands at b.AllData[0:] instead of
\* b.AllData[size-index:].
GetSecondCopyAtZero(buf, sz, index, dataSize) ==
    IF index > sz
    THEN [err |-> BufferrOutOfRange, AllData |-> <<>>, buffer |-> buf]
    ELSE IF index + dataSize > sz
    THEN IF dataSize - (sz - index) > sz
         THEN [err |-> Panic, AllData |-> <<>>, buffer |-> buf]
         ELSE [err |-> Nil,
               AllData |->
                 CopyAt(CopyAt(Make(dataSize), 0, Slice(buf, index, sz)),
                        0,
                        Slice(buf, 0, dataSize - (sz - index))),
               buffer |-> buf]
    ELSE [err |-> Nil,
          AllData |-> CopyAt(Make(dataSize), 0, Slice(buf, index, index + dataSize)),
          buffer |-> buf]

\* Get whose copies have their arguments swapped: copy(r.buffer[index:],
\* b.AllData) writes the fresh b.AllData over the store.
GetCopyReversed(buf, sz, index, dataSize) ==
    IF index > sz
    THEN [err |-> BufferrOutOfRange, AllData |-> <<>>, buffer |-> buf]
    ELSE IF index + dataSize > sz
    THEN IF dataSize - (sz - index) > sz
         THEN [err |-> Panic, AllData |-> <<>>, buffer |-> buf]
         ELSE [err |-> Nil, AllData |-> Make(dataSize),
               buffer |-> CopyAt(CopyAt(buf, index, Make(dataSize)), 0,
                                 Make(dataSize - (sz - index)))]
    ELSE [err |-> Nil, AllData |-> Make(dataSize),
          buffer |-> CopyAt(buf, index, Make(dataSize))]

\* RingBuffer.Get(index, dataSize, b): the error returned, b.AllData, and
\* the store's buffer afterwards (Get only reads r.buffer).
Get(buf, sz, index, dataSize) ==
    IF index > sz
    THEN [err |-> BufferrOutOfRange, AllData |-> <<>>, buffer |-> buf]
    ELSE IF index + dataSize > sz
    THEN IF dataSize - (sz - index) > sz
         THEN [err |-> Panic, AllData |-> <<>>, buffer |-> buf]
                                         \* r.buffer[0:dataSize-(size-index)]
         ELSE [err |-> Nil,
               AllData |->
                 CopyAt(CopyAt(Make(dataSize), 0, Slice(buf, index, sz)),
                        sz - index,
                        Slice(buf, 0, dataSize - (sz - index))),
               buffer |-> buf]
    ELSE [err |-> Nil,
          AllData |-> CopyAt(Make(dataSize), 0, Slice(buf, index, index + dataSize)),
          buffer |-> buf]

\* ---------------------------------------------------------------- Write
\* var BlockHeaderLenSize = 8
BlockHeaderLenSize == 8

\* binary.LittleEndian.PutUint64(header, v) on header = make([]byte, 8)
\* byte i (0-based) is byte(v >> (8 * i))
RECURSIVE ShiftRight8(_, _)
ShiftRight8(v, k) == IF k = 0 THEN v ELSE ShiftRight8(v \div 256, k - 1)

LittleEndianPutUint64(v) == [i \in 1..8 |-> ShiftRight8(v, i - 1) % 256]

\* The unexported RingBuffer.write(data) of the length-prefixed draft on the
\* store (buf, sz, cur): the count and error returned and the store afterwards.
\* data is a slice whose capacity equals its length.
write(buf, sz, cur, data) ==
    LET dataLen == Len(data) + BlockHeaderLenSize
        unchanged == [buffer |-> buf, currPosition |-> cur]
    IN  IF dataLen > sz
        THEN [n |-> 0, err |-> InsufficientBufferSpace] @@ unchanged
        ELSE LET targetPos == (cur + dataLen) % sz
             IN  IF cur > sz
                 THEN [n |-> 0, err |-> Panic] @@ unchanged   \* r.buffer[cur:]
                 ELSE IF targetPos < cur
                 THEN IF sz - cur > Len(data)
                      THEN [n |-> 0, err |-> Panic] @@ unchanged  \* data[:size-cur]
                      ELSE [n |-> dataLen, err |-> Nil,
                            buffer |->
                              CopyAt(CopyAt(buf, cur, Slice(data, 0, sz - cur)),
                                     0, Slice(data, sz - cur, Len(data))),
                            currPosition |-> targetPos]
                 ELSE [n |-> dataLen, err |-> Nil,
                       buffer |-> CopyAt(buf, cur, data),
                       currPosition |-> targetPos]

\* Write without its own size check, relying on the checks inside write.
WriteUnchecked(buf, sz, cur, b) ==
    LET hdr == write(buf, sz, cur, LittleEndianPutUint64(Len(b)))
    IN  IF hdr.err # Nil
        THEN [hdr EXCEPT !.n = 0]
        ELSE LET body == write(hdr.buffer, sz, hdr.currPosition, b)
             IN  IF body.err # Nil
                 THEN [body EXCEPT !.n = 0]
                 ELSE [body EXCEPT !.n = Len(b) + BlockHeaderLenSize]

\* RingBuffer.Write(b) of the length-prefixed draft: the header is written
\* with write, then the payload with a second write.
Write(buf, sz, cur, b) ==
    LET blockLen == Len(b)
        totalLen == blockLen + BlockHeaderLenSize
    IN  IF totalLen > sz
        THEN [n |-> 0, err |-> InsufficientBufferSpace,
              buffer |-> buf, currPosition |-> cur]
        ELSE LET hdr == write(buf, sz, cur, LittleEndianPutUint64(blockLen))
             IN  IF hdr.err # Nil
                 THEN [hdr EXCEPT !.n = 0]
                 ELSE LET body == write(hdr.buffer, sz, hdr.currPosition, b)
                      IN  IF body.err # Nil
                          THEN [body EXCEPT !.n = 0]
                          ELSE [body EXCEPT !.n = totalLen]

\* ---------------------------------------------------------------- state
\* The index and dataSize arguments handed to Get on a store of capacity sz:
\* every value up to sz + 1 for a small store, and for the larger
\* length-prefixed stores the values around the bounds check and the header.
GetArgs(sz) ==
    IF sz <= MaxSize + 1
    THEN 0..(sz + 1)
    ELSE {0, BlockHeaderLenSize, sz - 1, sz, sz + 1}

NoCall ==
    [op |-> "none", h |-> 0, pre |-> <<>>, data |-> <<>>, len |-> 0,
     index |-> 0, dataSize |-> 0, err |-> Nil, out |-> <<>>, ret |-> 0]

\* blocks remembers where the last two blocks went in: the cursor each
\* successful Add or Write started at and the length it was called with.
Remember(bs, offset, length) ==
    LET e == [offset |-> offset, length |-> length]
    IN  IF Len(bs) < 2 THEN Append(bs, e) ELSE <<bs[2], e>>

\* NewRingBuffer(size), the same in both drafts: no check of size; make
\* panics on a negative length; blockIdx and timeIdx are left nil.
NewRingBuffer(sz) ==
    [err |-> IF sz < 0 THEN Panic ELSE Nil,
     buffer |-> Make(sz), size |-> sz, currPosition |-> 0,
     blockIdx |-> <<>>, timeIdx |-> <<>>]

\* No Add and no Get is in progress.
NoRace ==
    [locked |-> TRUE,
     add |-> [pc |-> "idle", pre |-> <<>>, target |-> <<>>, cur |-> 0],
     get |-> [pc |-> "idle", index |-> 0, dataSize |-> 0, out |-> <<>>,
              snaps |-> {}]]

\* The state NewRingBuffer(sz) leaves; lk tells whether the caller serializes
\* its calls with one exclusive lock.
Constructed(v, sz, lk) ==
    LET r == NewRingBuffer(sz)
    IN  /\ variant = v
        /\ size = r.size
        /\ buffer = r.buffer
        /\ currPosition = r.currPosition
        /\ blockIdx = r.blockIdx
        /\ timeIdx = r.timeIdx
        /\ panicked = (r.err = Panic)
        /\ writes = 0
        /\ blocks = <<>>
        /\ last = NoCall
        /\ stored = <<>>
        /\ race = [NoRace EXCEPT !.locked = lk]

\* NewRingBuffer(size) of buffer.go
InitBlock == \E sz \in Sizes : Constructed("block", sz, TRUE)

\* One call of Add, whatever else is recorded about it.
AddCall ==
    /\ variant = "block"
    /\ ~panicked
    /\ \E block \in Blocks :
         LET res == Add(buffer, size, currPosition, block)
         IN  /\ buffer' = res.buffer
             /\ currPosition' = res.currPosition
             /\ panicked' = (res.err = Panic)
             /\ blocks' = IF res.err = Nil
                          THEN Remember(blocks, currPosition, BlockLen(block))
                          ELSE blocks
             /\ last' = [NoCall EXCEPT !.op = "Add", !.h = currPosition,
                                       !.pre = buffer, !.data = block.AllData,
                                       !.len = BlockLen(block), !.err = res.err]
    /\ UNCHANGED <<variant, size, blockIdx, timeIdx, writes, race>>

DoAdd == AddCall /\ UNCHANGED stored

\* Add, with the caller keeping a record of the blocks it added with success,
\* oldest first: the cursor each went in at, its Len() and its bytes.  The
\* caller adds MaxStored blocks.
DoAddTracked ==
    /\ Len(stored) < MaxStored
    /\ AddCall
    /\ stored' = IF last'.err = Nil
                  THEN Append(stored, [offset |-> last'.h, length |-> last'.len,
                                       data |-> last'.data])
                  ELSE stored

DoGet ==
    /\ ~panicked
    /\ \E index \in GetArgs(size), dataSize \in GetArgs(size) :
         LET res == Get(buffer, size, index, dataSize)
         IN  /\ buffer' = res.buffer
             /\ panicked' = (res.err = Panic)
             /\ last' = [NoCall EXCEPT !.op = "Get", !.h = currPosition,
                                       !.pre = buffer, !.index = index,
                                       !.dataSize = dataSize, !.err = res.err,
                                       !.out = res.AllData]
    /\ UNCHANGED <<variant, size, currPosition, blockIdx, timeIdx, writes,
                   blocks, stored, race>>

\* NewRingBuffer(size) of the length-prefixed draft
InitFramed == \E sz \in FramedSizes : Constructed("framed", sz, TRUE)

DoWrite ==
    /\ variant = "framed"
    /\ ~panicked
    /\ writes < MaxWrites
    /\ writes' = writes + 1
    /\ \E b \in Payloads(MaxFramedSize - BlockHeaderLenSize + 1) :
         LET res == Write(buffer, size, currPosition, b)
         IN  /\ buffer' = res.buffer
             /\ currPosition' = res.currPosition
             /\ panicked' = (res.err = Panic)
             /\ blocks' = IF res.err = Nil
                          THEN Remember(blocks, currPosition, res.n)
                          ELSE blocks
             /\ last' = [NoCall EXCEPT !.op = "Write", !.h = currPosition,
                                       !.pre = buffer, !.data = b,
                                       !.len = Len(b), !.err = res.err,
                                       !.ret = res.n]
    /\ UNCHANGED <<variant, size, blockIdx, timeIdx, stored, race>>

Init == InitBlock \/ InitFramed

Next == DoAdd \/ DoWrite \/ DoGet

Spec == Init /\ [][Next]_vars

\* The store of buffer.go alone, and the length-prefixed store alone.
NextBlock == DoAdd \/ DoGet
SpecBlock == InitBlock /\ [][NextBlock]_vars

NextFramed == DoWrite \/ DoGet
SpecFramed == InitFramed /\ [][NextFramed]_vars

\* ------------------------------------------------- overlapping calls
\* Add and Get of buffer.go called from two goroutines, one adding and one
\* getting.  copy moves bytes one at a time, so a call is a sequence of
\* steps: its checks, one step per byte, its return.  When race.locked the
\* caller holds one exclusive lock around every call; otherwise the steps of
\* an Add and of a Get interleave freely.

\* The bytes Get(index, dataSize) finds when nothing is being written.
RangeContents(buf, index, dataSize) ==
    [i \in 1..dataSize |-> buf[((index + i - 1) % size) + 1]]

InitRace == \E sz \in Sizes, lk \in BOOLEAN : Constructed("block", sz, lk)

\* Add, lines 47-55: the size check and targetPos; a failing Add returns here.
\* A Get in progress now overlaps one more Add, which it may see as done.
StartAdd ==
    /\ ~panicked
    /\ writes < MaxWrites
    /\ race.add.pc = "idle"
    /\ race.locked => race.get.pc # "copy"
    /\ \E block \in Blocks :
         LET res == Add(buffer, size, currPosition, block)
         IN  /\ panicked' = (res.err = Panic)
             /\ race' = IF res.err = Nil
                        THEN [race EXCEPT
                                 !.add = [pc |-> "copy", pre |-> buffer,
                                          target |-> res.buffer,
                                          cur |-> res.currPosition],
                                 !.get.snaps =
                                     IF race.get.pc = "copy"
                                     THEN @ \cup {RangeContents(res.buffer,
                                                      race.get.index,
                                                      race.get.dataSize)}
                                     ELSE @]
                        ELSE race
    /\ writes' = writes + 1
    /\ UNCHANGED <<variant, size, buffer, currPosition, blockIdx, timeIdx,
                   blocks, last, stored>>

\* Add, lines 60-66: copy stores the next byte.
StepAdd ==
    /\ race.add.pc = "copy"
    /\ \E p \in 1..size :
         /\ buffer[p] # race.add.target[p]
         /\ \A q \in 1..(p - 1) : buffer[q] = race.add.target[q]
         /\ buffer' = [buffer EXCEPT ![p] = race.add.target[p]]
    /\ UNCHANGED <<variant, size, currPosition, blockIdx, timeIdx, panicked,
                   writes, blocks, last, stored, race>>

\* Add, lines 70-71: the cursor is set and Add returns.
FinishAdd ==
    /\ race.add.pc = "copy"
    /\ buffer = race.add.target
    /\ currPosition' = race.add.cur
    /\ race' = [race EXCEPT !.add = NoRace.add]
    /\ UNCHANGED <<variant, size, buffer, blockIdx, timeIdx, panicked, writes,
                   blocks, last, stored>>

\* Get, lines 77-81: the bounds check and make; a failing Get returns here.
\* Get stores nothing, so one Get per behaviour, started at any moment,
\* meets every state a later Get could meet.
StartGet ==
    /\ ~panicked
    /\ race.get.pc = "idle"
    /\ race.locked => race.add.pc # "copy"
    /\ \E index \in GetArgs(size), dataSize \in GetArgs(size) :
         LET res == Get(buffer, size, index, dataSize)
             quiet == IF race.add.pc = "copy"
                      THEN {race.add.pre, race.add.target}
                      ELSE {buffer}
         IN  /\ panicked' = (res.err = Panic)
             /\ race' = IF res.err = Nil
                        THEN [race EXCEPT !.get =
                                 [pc |-> "copy", index |-> index,
                                  dataSize |-> dataSize, out |-> <<>>,
                                  snaps |-> {RangeContents(q, index, dataSize) :
                                                q \in quiet}]]
                        ELSE race
    /\ UNCHANGED <<variant, size, buffer, currPosition, blockIdx, timeIdx,
                   writes, blocks, last, stored>>

\* Get, lines 85-91: copy fetches the next byte of b.AllData.
StepGet ==
    /\ race.get.pc = "copy"
    /\ Len(race.get.out) < race.get.dataSize
    /\ race' = [race EXCEPT !.get.out =
                  Append(@, Get(buffer, size, race.get.index,
                                race.get.dataSize).AllData[Len(@) + 1])]
    /\ UNCHANGED <<variant, size, buffer, currPosition, blockIdx, timeIdx,
                   panicked, writes, blocks, last, stored>>

\* Get, line 94: Get returns b.AllData.
FinishGet ==
    /\ race.get.pc = "copy"
    /\ Len(race.get.out) = race.get.dataSize
    /\ race' = [race EXCEPT !.get.pc = "done"]
    /\ UNCHANGED <<variant, size, buffer, currPosition, blockIdx, timeIdx,
                   panicked, writes, blocks, last, stored>>

NextEvict == DoAddTracked

SpecEvict == InitBlock /\ [][NextEvict]_vars

NextRace ==
    StartAdd \/ StepAdd \/ FinishAdd \/ StartGet \/ StepGet \/ FinishGet

SpecRace == InitRace /\ [][NextRace]_vars

\* ================================================================ claims
\* The last call was Add of a block with Len() = len(AllData) <= size on a
\* store of positive capacity.
AddOfFittingBlock ==
    /\ last.op = "Add"
    /\ size > 0
    /\ last.len = Len(last.data)
    /\ last.len <= size

\* Position (h + i) mod size of the buffer, as a sequence index.
RingAt(h, i) == ((h + i) % size) + 1

\* C1: a block with Len() = len(AllData) = n <= C added at cursor h reads
\* back unchanged through Get(h, n), which returns nil, before any later Add.
C1_RoundTrip ==
    AddOfFittingBlock =>
        LET got == Get(buffer, size, last.h, last.len)
        IN  /\ last.err = Nil
            /\ got.err = Nil
            /\ got.AllData = last.data

\* C2: a successful Add of n <= C bytes from cursor h stores byte i of the
\* block at buffer position (h + i) mod C, for every 0 <= i < n.
C2_WrapPlacement ==
    (AddOfFittingBlock /\ last.err = Nil) =>
        \A i \in 0..(last.len - 1) :
            buffer[RingAt(last.h, i)] = last.data[i + 1]

\* C3: on a store of capacity C > 0 the cursor stays in [0, C), and after a
\* successful Add of n bytes from cursor h it is (h + n) mod C.
C3_CursorInRange ==
    (variant = "block" /\ size > 0) =>
        /\ 0 <= currPosition
        /\ currPosition < size
        /\ (last.op = "Add" /\ last.err = Nil) =>
               currPosition = (last.h + last.len) % size

\* C4: Add of a block with Len() > size, and Write(b) with len(b) + 8 > size,
\* return InsufficientBufferSpace and leave buffer and cursor as they were.
C4_OversizedRejected ==
    /\ (last.op = "Add" /\ last.len > size) =>
           /\ last.err = InsufficientBufferSpace
           /\ buffer = last.pre
           /\ currPosition = last.h
    /\ (last.op = "Write" /\ Len(last.data) + BlockHeaderLenSize > size) =>
           /\ last.err = InsufficientBufferSpace
           /\ last.ret = 0
           /\ buffer = last.pre
           /\ currPosition = last.h

\* An oversized Write was rejected on a store that already holds a frame and
\* whose cursor has moved.
C4_Witness ==
    /\ last.op = "Write"
    /\ Len(last.data) + BlockHeaderLenSize > size
    /\ last.err = InsufficientBufferSpace
    /\ last.h > 0
    /\ \E i \in 1..size : last.pre[i] # 0

\* C5: Add of a block with Len() = len(AllData) <= C always returns nil: no
\* error and no out-of-range slice, however much was written before.
C5_WritersNeverRefused ==
    AddOfFittingBlock => last.err = Nil

\* C6: Get returns BufferrOutOfRange exactly when index >= size or
\* dataSize > size, and nil for every other argument.
C6_GetBoundsCheck ==
    (last.op = "Get" /\ size > 0) =>
        IF last.index >= size \/ last.dataSize > size
        THEN last.err = BufferrOutOfRange
        ELSE last.err = Nil

\* C7: for 0 <= index < size and 0 <= dataSize <= size, Get returns nil and
\* exactly dataSize bytes, byte i being buffer[(index + i) mod size].
C7_WrapRead ==
    (last.op = "Get" /\ last.index < size /\ last.dataSize <= size) =>
        /\ last.err = Nil
        /\ Len(last.out) = last.dataSize
        /\ \A i \in 0..(last.dataSize - 1) :
               last.out[i + 1] = buffer[RingAt(last.index, i)]

\* A Get that wrapped over the end of a buffer holding written bytes on both
\* sides of the boundary.
C7_Witness ==
    /\ last.op = "Get"
    /\ last.index > 0
    /\ last.index < size
    /\ last.dataSize <= size
    /\ last.index + last.dataSize > size + 1
    /\ buffer[size] # 0
    /\ buffer[1] # 0
    /\ buffer[2] # 0
    /\ buffer[1] # buffer[2]
    /\ last.err = Nil

\* C8: a successful Write(b) from cursor h leaves the cursor at
\* (h + len(b) + 8) mod size: it advances by the byte count Write returns.
C8_WriteAdvance ==
    (last.op = "Write" /\ last.err = Nil) =>
        /\ last.ret = Len(last.data) + BlockHeaderLenSize
        /\ currPosition = (last.h + last.ret) % size

\* The positions {(offset + i) mod size : 0 <= i < length} of a stored block.
RangeOf(e) == {RingAt(e.offset, i) : i \in 0..(e.length - 1)}

\* C9: once a later block B wraps and overwrites a byte of the range of
\* block A, a Get for A reports Stale, and a Get for B returns B's bytes
\* unchanged.
C9_OverlapIsStale ==
    (/\ AddOfFittingBlock
     /\ last.err = Nil
     /\ Len(blocks) = 2
     /\ blocks[1].length <= size
     /\ blocks[2].offset + blocks[2].length > size
     /\ RangeOf(blocks[1]) \cap RangeOf(blocks[2]) # {}) =>
        /\ Get(buffer, size, blocks[1].offset, blocks[1].length).err = "Stale"
        /\ Get(buffer, size, blocks[2].offset, blocks[2].length).AllData
               = last.data

\* C10: Add of a block with Len() = 0 and empty AllData returns nil and
\* leaves the cursor and every byte of the buffer unchanged.
C10_EmptyAddIsNoOp ==
    (last.op = "Add" /\ size > 0 /\ last.len = 0 /\ last.data = <<>>) =>
        /\ last.err = Nil
        /\ buffer = last.pre
        /\ currPosition = last.h

\* C11: NewRingBuffer(size) with size > 0 yields a buffer of exactly size
\* bytes and cursor 0, and no store of non-positive capacity comes to exist
\* (construction with size <= 0 fails).
C11_Construction ==
    (last.op = "none" /\ race = NoRace /\ stored = <<>> /\ ~panicked) =>
        /\ Len(buffer) = size
        /\ currPosition = 0
        /\ size > 0

\* C12: a Get changes neither the cursor nor a byte of the buffer nor the
\* index maps, whatever it returns, and a Get repeated with the same
\* arguments right after returns the same error and bytes.
C12_GetIsPure ==
    [][last'.op = "Get" =>
          /\ buffer' = buffer
          /\ currPosition' = currPosition
          /\ blockIdx' = blockIdx
          /\ timeIdx' = timeIdx
          /\ (/\ last.op = "Get"
              /\ last'.index = last.index
              /\ last'.dataSize = last.dataSize) =>
                 (last'.err = last.err /\ last'.out = last.out)]_vars

\* A Get refused with BufferrOutOfRange on a store that holds bytes and whose
\* cursor has moved.
C12_Witness ==
    /\ last.op = "Get"
    /\ last.err = BufferrOutOfRange
    /\ currPosition > 0
    /\ buffer[1] # 0

\* C13: every successful Add is given an identifier of its own (so the
\* identifiers recorded are at least as many as the blocks added), and a Get
\* for an identifier that was never given out yields NotFound.
C13_MonotonicSequence ==
    /\ variant = "block" => Cardinality(DOMAIN blockIdx) >= Len(blocks)
    /\ (last.op = "Get" /\ last.index \notin DOMAIN blockIdx) =>
           last.err = "NotFound"

\* The Get that has just returned brought bytes that its range held neither
\* before nor after any of the Adds it overlapped.
Torn ==
    /\ race.get.pc = "done"
    /\ race.get.out \notin race.get.snaps

Intact(e) ==
    \A i \in 1..Len(e.data) : buffer[RingAt(e.offset, i - 1)] = e.data[i]

\* Three blocks A, B, C added in this order: A of at least one byte lying
\* wholly before the place B went in, B of Len() = size, C of at least one
\* byte whose first byte differs from B's.
EvictionCase ==
    /\ Len(stored) = 3
    /\ size > 0
    /\ \A k \in 1..3 : stored[k].length = Len(stored[k].data)
    /\ stored[1].length >= 1
    /\ stored[1].offset + stored[1].length <= stored[2].offset
    /\ stored[2].length = size
    /\ stored[2].offset < size
    /\ stored[3].length >= 1
    /\ stored[3].data[1] # stored[2].data[1]

RingRange(h, n) == {RingAt(h, i) : i \in 0..(n - 1)}

\* The block added before the last one lies wholly outside the last one's
\* range.
EarlierBlockDisjoint ==
    /\ Len(blocks) = 2
    /\ RingRange(blocks[1].offset, blocks[1].length)
         \cap RingRange(last.h, last.len) = {}

\* C16: a successful Add of a block with Len() = len(AllData) = n <= size
\* from cursor h changes no byte outside the positions (h + i) mod size,
\* i < n, and an earlier block with a disjoint range reads back as before;
\* a failing Add changes no byte.
C16_AddFrame ==
    /\ (AddOfFittingBlock /\ last.err = Nil) =>
          /\ \A p \in (1..size) \ RingRange(last.h, last.len) :
                 buffer[p] = last.pre[p]
          /\ EarlierBlockDisjoint =>
                 LET now == Get(buffer, size, blocks[1].offset,
                                blocks[1].length)
                     was == Get(last.pre, size, blocks[1].offset,
                                blocks[1].length)
                 IN  now.err = was.err /\ now.AllData = was.AllData
    /\ (last.op = "Add" /\ last.err # Nil) => buffer = last.pre

\* A block of at least one byte went in at a cursor past an earlier block
\* whose bytes are in the buffer.
C16_Witness ==
    /\ AddOfFittingBlock
    /\ last.err = Nil
    /\ last.len >= 1
    /\ last.h > 0
    /\ last.h < size
    /\ EarlierBlockDisjoint
    /\ blocks[1].length >= 1
    /\ buffer[blocks[1].offset + 1] # 0
    /\ buffer # last.pre

\* C17: after a successful Write(b) started at cursor h, Get(h, 8) returns the
\* little-endian encoding of len(b) and Get((h + 8) mod size, len(b))
\* returns b.
C17_FramingReadsBack ==
    (last.op = "Write" /\ last.err = Nil) =>
        LET header == Get(buffer, size, last.h, BlockHeaderLenSize)
            payload == Get(buffer, size,
                           (last.h + BlockHeaderLenSize) % size, last.len)
        IN  /\ header.err = Nil
            /\ header.AllData = LittleEndianPutUint64(last.len)
            /\ payload.err = Nil
            /\ payload.AllData = last.data

\* C18: Write(b) returns InsufficientBufferSpace exactly when
\* len(b) + 8 > size, returns (len(b) + 8, nil) otherwise, and a failing
\* Write leaves no header behind.
C18_WriteFailsExactlyWhenTooBig ==
    last.op = "Write" =>
        /\ last.err = InsufficientBufferSpace
             <=> last.len + BlockHeaderLenSize > size
        /\ last.len + BlockHeaderLenSize <= size =>
             (last.err = Nil /\ last.ret = last.len + BlockHeaderLenSize)
        /\ last.err # Nil => buffer = last.pre

\* C19: in every state reached by successful Writes, write(data) for any
\* data with len(data) + 8 <= size slices nothing out of range, and when
\* currPosition + len(data) > size every byte of data lands at its ring
\* position.
C19_WriteNeverOutOfRange ==
    (variant = "framed" /\ ~panicked) =>
        \A data \in Payloads(size - BlockHeaderLenSize)
                      \cup {LittleEndianPutUint64(n) : n \in 0..1} :
            Len(data) + BlockHeaderLenSize <= size =>
                LET res == write(buffer, size, currPosition, data)
                IN  /\ res.err = Nil
                    /\ currPosition + Len(data) > size =>
                         \A i \in 1..Len(data) :
                             res.buffer[RingAt(currPosition, i - 1)] = data[i]

====
